---- MODULE Spec2Model ----
(***************************************************************************)
(* Model of src/protocols/types/DMABuffer.cpp (CDMABuffer): the import of  *)
(* a dmabuf descriptor into a texture (CPU-copy materializer, then EGL     *)
(* import with one implicit-modifier retry), the release of the plane file *)
(* descriptors, and the export and merge of per-plane sync files.          *)
(*                                                                         *)
(* Plane index i of the C++ arrays is index i+1 here (sequences are        *)
(* 1-based).  Calls into the kernel, GL/EGL and the logger are recorded as *)
(* events in per-operation logs; their results are inputs of the actions.  *)
(***************************************************************************)
EXTENDS Integers, Sequences, FiniteSets

(* Bounds of the model. *)
MaxPlanes == 3
MaxNotify == 2
MaxTransient == 3

VARIABLES
    phase,        \* "new" (constructor not yet run), "alive", "destroyed"
    attrs_,       \* the constructor's argument attrs_
    env,          \* getenv toggles, g_pCompositor / g_pHyprRenderer state
    m_attrs,      \* CDMABuffer::m_attrs
    m_texture,    \* CDMABuffer::m_texture (NoTexture = null shared pointer)
    m_opaque,     \* CDMABuffer::m_opaque
    m_success,    \* CDMABuffer::m_success
    listening,    \* m_listeners.resourceDestroy holds a live subscription
    ctorLog,      \* external calls issued by the constructor, in order
    handlerLog,   \* steps executed by the resourceDestroy listener, in order
    closeLog,     \* every fd handed to close(), in order
    notified,     \* number of events.destroy emissions so far
    exportRet,    \* fence returned by the last exportSyncFile (<<>> = empty)
    exportLog,    \* kernel requests issued by the last exportSyncFile
    exported,     \* exportSyncFile has been called
    ioPc,         \* doIoctl: "idle", "call" (about to call ioctl), "done"
    ioReq,        \* doIoctl: the request being issued
    ioLog,        \* doIoctl: the results of its ioctl calls, in order
    ioRet         \* doIoctl: the local ret

vars == <<phase, attrs_, env, m_attrs, m_texture, m_opaque, m_success, listening,
          ctorLog, handlerLog, closeLog, notified, exportRet, exportLog, exported,
          ioPc, ioReq, ioLog, ioRet>>

ioVars == <<ioPc, ioReq, ioLog, ioRet>>

bufVars == <<phase, attrs_, env, m_attrs, m_texture, m_opaque, m_success, listening,
             ctorLog, handlerLog, closeLog, notified, exportRet, exportLog, exported>>

Planes == 1..MaxPlanes

Formats == {"ARGB8888", "XRGB8888", "ABGR8888", "XBGR8888", "RGB888", "BGR888", "NV12"}

NoTexture == [texID |-> 0, kind |-> "null", type |-> "none", sync |-> FALSE]

Ev(op, arg) == [op |-> op, arg |-> arg]

(***************************************************************************)
(* The descriptor (Aquamarine::SDMABUFAttrs) and the environment.          *)
(***************************************************************************)
PlaneFd(p) == 2 + p

\* fds of a descriptor with n planes: valid for the planes, -1 for the rest
DescriptorFds(n) == [p \in Planes |-> IF p <= n THEN PlaneFd(p) ELSE -1]

Geometries == {<<0, 2>>, <<8, 0>>, <<8, 2>>}     \* <<strides[0], size.y>>

Descriptor(n, mod, fmt, cross, geo, dev) ==
    [planes |-> n, fds |-> DescriptorFds(n), modifier |-> mod, format |-> fmt,
     crossGPU |-> cross, stride |-> geo[1], sizeX |-> 2, sizeY |-> geo[2],
     sourceDevice |-> dev]

Descriptors ==
    {Descriptor(n, mod, fmt, cross, geo, dev) :
        n \in 0..MaxPlanes, mod \in {"INVALID", "LINEAR"}, fmt \in Formats,
        cross \in BOOLEAN, geo \in Geometries, dev \in {-1, 9}}

Environments ==
    [secondaryAvailable : BOOLEAN, enableCPUFallback : BOOLEAN,
     disableCPUFallback : BOOLEAN, logDMABUF : BOOLEAN, isIntel : BOOLEAN]

(***************************************************************************)
(* NFormatUtils::isFormatOpaque: the format has no alpha channel.          *)
(***************************************************************************)
isFormatOpaque(fmt) == fmt \in {"XRGB8888", "XBGR8888", "RGB888", "BGR888", "NV12"}

(***************************************************************************)
(* createCrossGPUTexture.  k holds the results of the calls it makes:      *)
(* mmapDirect, fdToHandle, mapDumb, mmapDevice, genTextures (TRUE = ok)    *)
(* and glError (TRUE = glGetError reports an error).                       *)
(***************************************************************************)
MatOutcomesAll ==
    [mmapDirect : BOOLEAN, fdToHandle : BOOLEAN, mapDumb : BOOLEAN,
     mmapDevice : BOOLEAN, genTextures : BOOLEAN, glError : BOOLEAN]

\* one representative per distinguishable run: a call that is not reached
\* has its result fixed
MatOutcomes ==
    {k \in MatOutcomesAll :
        /\ k.mmapDirect => (~k.fdToHandle /\ ~k.mapDumb /\ ~k.mmapDevice)
        /\ ~k.fdToHandle => (~k.mapDumb /\ ~k.mmapDevice)
        /\ ~k.mapDumb => ~k.mmapDevice
        /\ (~k.mmapDirect /\ ~k.mmapDevice) => (~k.genTextures /\ ~k.glError)
        /\ ~k.genTextures => ~k.glError}

\* mutant: the buffer handle is not released when MODE_MAP_DUMB fails
MapStage_LeakHandle(attrs, k) ==
    LET direct == <<Ev("mmap", IF k.mmapDirect THEN "fd" ELSE "fd MAP_FAILED")>> IN
    IF k.mmapDirect THEN [mapped |-> TRUE, log |-> direct]
    ELSE IF attrs.sourceDevice < 0 THEN [mapped |-> FALSE, log |-> direct]
    ELSE IF ~k.fdToHandle
         THEN [mapped |-> FALSE, log |-> direct \o <<Ev("drmPrimeFDToHandle", "fail")>>]
    ELSE IF ~k.mapDumb
         THEN [mapped |-> FALSE,
               log |-> direct \o <<Ev("drmPrimeFDToHandle", "ok"), Ev("MODE_MAP_DUMB", "fail")>>]
    ELSE [mapped |-> k.mmapDevice,
          log |-> direct \o <<Ev("drmPrimeFDToHandle", "ok"), Ev("MODE_MAP_DUMB", "ok"),
                              Ev("mmap", IF k.mmapDevice THEN "sourceDevice"
                                                         ELSE "sourceDevice MAP_FAILED"),
                              Ev("drmCloseBufferHandle", "")>>]

\* lines 232-270: the two-stage mapping; an mmap that returned MAP_FAILED
\* is logged as such
MapStage(attrs, k) ==
    LET direct == <<Ev("mmap", IF k.mmapDirect THEN "fd" ELSE "fd MAP_FAILED")>> IN
    IF k.mmapDirect THEN [mapped |-> TRUE, log |-> direct]
    ELSE IF attrs.sourceDevice < 0 THEN [mapped |-> FALSE, log |-> direct]
    ELSE IF ~k.fdToHandle
         THEN [mapped |-> FALSE, log |-> direct \o <<Ev("drmPrimeFDToHandle", "fail")>>]
    ELSE IF ~k.mapDumb
         THEN [mapped |-> FALSE,
               log |-> direct \o <<Ev("drmPrimeFDToHandle", "ok"), Ev("MODE_MAP_DUMB", "fail"),
                                   Ev("drmCloseBufferHandle", "")>>]
    ELSE [mapped |-> k.mmapDevice,
          log |-> direct \o <<Ev("drmPrimeFDToHandle", "ok"), Ev("MODE_MAP_DUMB", "ok"),
                              Ev("mmap", IF k.mmapDevice THEN "sourceDevice"
                                                         ELSE "sourceDevice MAP_FAILED"),
                              Ev("drmCloseBufferHandle", "")>>]

\* lines 273-305: DRM format -> GL upload layout
GLLayout(fmt) ==
    CASE fmt \in {"ARGB8888", "XRGB8888"} -> [supported |-> TRUE, glFormat |-> "GL_BGRA_EXT", bpp |-> 4]
      [] fmt \in {"ABGR8888", "XBGR8888"} -> [supported |-> TRUE, glFormat |-> "GL_RGBA", bpp |-> 4]
      [] fmt = "RGB888" -> [supported |-> TRUE, glFormat |-> "GL_RGB", bpp |-> 3]
      [] OTHER -> [supported |-> FALSE, glFormat |-> "GL_RGBA", bpp |-> 4]

\* lines 353-362
TextureType(fmt) == IF fmt \in {"XRGB8888", "XBGR8888", "RGB888"} THEN "TEXTURE_RGBX" ELSE "TEXTURE_RGBA"

\* mutant: the mapping is not released when glGenTextures fails
UploadStage_LeakMapping(attrs, k) ==
    LET lay == GLLayout(attrs.format)
        rowLen == IF attrs.stride # attrs.sizeX * lay.bpp
                  THEN <<Ev("glPixelStorei", "stride/bpp")>> ELSE <<>>
        upload == <<Ev("glGenTextures", "ok")>> \o rowLen
                  \o <<Ev("glTexImage2D", lay.glFormat), Ev("glPixelStorei", "0"), Ev("munmap", "")>>
    IN
    IF ~lay.supported
    THEN [ret |-> FALSE, log |-> <<Ev("munmap", "")>>, texture |-> NoTexture]
    ELSE IF ~k.genTextures
    THEN [ret |-> FALSE, log |-> <<Ev("glGenTextures", "fail")>>, texture |-> NoTexture]
    ELSE IF k.glError
    THEN [ret |-> FALSE, log |-> upload \o <<Ev("glDeleteTextures", "")>>, texture |-> NoTexture]
    ELSE [ret |-> TRUE, log |-> upload,
          texture |-> [texID |-> 1, kind |-> "cpu", type |-> TextureType(attrs.format),
                       sync |-> TRUE]]

\* lines 273-365: format switch, texture creation, upload, unmap, wrapper
UploadStage(attrs, k) ==
    LET lay == GLLayout(attrs.format)
        rowLen == IF attrs.stride # attrs.sizeX * lay.bpp
                  THEN <<Ev("glPixelStorei", "stride/bpp")>> ELSE <<>>
        upload == <<Ev("glGenTextures", "ok")>> \o rowLen
                  \o <<Ev("glTexImage2D", lay.glFormat), Ev("glPixelStorei", "0"), Ev("munmap", "")>>
    IN
    IF ~lay.supported
    THEN [ret |-> FALSE, log |-> <<Ev("munmap", "")>>, texture |-> NoTexture]
    ELSE IF ~k.genTextures
    THEN [ret |-> FALSE, log |-> <<Ev("glGenTextures", "fail"), Ev("munmap", "")>>,
          texture |-> NoTexture]
    ELSE IF k.glError
    THEN [ret |-> FALSE, log |-> upload \o <<Ev("glDeleteTextures", "")>>, texture |-> NoTexture]
    ELSE [ret |-> TRUE, log |-> upload,
          texture |-> [texID |-> 1, kind |-> "cpu", type |-> TextureType(attrs.format),
                       sync |-> TRUE]]

\* mutant: the buffer size is not checked
createCrossGPUTexture_NoSizeCheck(attrs, k) ==
    IF attrs.planes # 1 THEN [ret |-> FALSE, log |-> <<>>, texture |-> NoTexture]
    ELSE LET m == MapStage(attrs, k) IN
         IF ~m.mapped THEN [ret |-> FALSE, log |-> m.log, texture |-> NoTexture]
         ELSE LET u == UploadStage(attrs, k) IN
              [ret |-> u.ret, log |-> m.log \o u.log, texture |-> u.texture]

\* lines 217-343
createCrossGPUTexture(attrs, k) ==
    IF attrs.planes # 1 THEN [ret |-> FALSE, log |-> <<>>, texture |-> NoTexture]
    ELSE IF attrs.stride * attrs.sizeY = 0 THEN [ret |-> FALSE, log |-> <<>>, texture |-> NoTexture]
    ELSE LET m == MapStage(attrs, k) IN
         IF ~m.mapped THEN [ret |-> FALSE, log |-> m.log, texture |-> NoTexture]
         ELSE LET u == UploadStage(attrs, k) IN
              [ret |-> u.ret, log |-> m.log \o u.log, texture |-> u.texture]


(***************************************************************************)
(* The constructor, lines 23-88.                                           *)
(***************************************************************************)
\* lines 36-38
allowCPUFallback(e) == e.enableCPUFallback /\ ~e.disableCPUFallback

\* mutant: the disable toggle is ignored
tryCrossGPU_IgnoreDisable(attrs, e) ==
    attrs.crossGPU /\ e.secondaryAvailable /\ e.enableCPUFallback

\* line 40: the condition under which the CPU-copy path is tried
tryCrossGPU(attrs, e) == attrs.crossGPU /\ e.secondaryAvailable /\ allowCPUFallback(e)

\* results of g_pHyprOpenGL->createEGLImage (first call, retry) and the id
\* the CTexture wrapping the image ends up with
ZeroCopyOutcomes ==
    {z \in [egl1 : BOOLEAN, egl2 : BOOLEAN, texID : {0, 2}] :
        /\ z.egl1 => ~z.egl2
        /\ (~z.egl1 /\ ~z.egl2) => z.texID = 0}

\* mutant: a failed CPU copy ends the constructor
MaterializerStep_Terminal(attrs, e, k) ==
    IF tryCrossGPU(attrs, e)
    THEN LET r == createCrossGPUTexture(attrs, k)
             ok == r.ret /\ r.texture.texID # 0
         IN [attempted |-> TRUE, returned |-> TRUE, texture |-> r.texture,
             opaque |-> ok /\ isFormatOpaque(attrs.format), success |-> ok,
             log |-> <<Ev("createCrossGPUTexture", "")>> \o r.log]
    ELSE [attempted |-> FALSE, returned |-> FALSE, texture |-> NoTexture,
          opaque |-> FALSE, success |-> FALSE, log |-> <<>>]

\* lines 40-61: members after the cross-GPU branch; returned = the
\* constructor returned at line 56
MaterializerStep(attrs, e, k) ==
    IF tryCrossGPU(attrs, e)
    THEN LET r == createCrossGPUTexture(attrs, k)
             log == <<Ev("createCrossGPUTexture", "")>> \o r.log
         IN IF ~r.ret
            THEN [attempted |-> TRUE, returned |-> FALSE, texture |-> NoTexture,
                  opaque |-> FALSE, success |-> FALSE, log |-> log]
            ELSE LET ok == r.texture.kind # "null" /\ r.texture.texID # 0 IN
                 [attempted |-> TRUE, returned |-> ok, texture |-> r.texture,
                  opaque |-> isFormatOpaque(attrs.format), success |-> ok, log |-> log]
    ELSE [attempted |-> FALSE, returned |-> FALSE, texture |-> NoTexture,
          opaque |-> FALSE, success |-> FALSE, log |-> <<>>]

\* mutant: success is set without looking at the texture id
WrapImage_AlwaysGood(attrs, z, log) ==
    [attrs |-> attrs,
     texture |-> [texID |-> z.texID, kind |-> "egl", type |-> "external", sync |-> FALSE],
     opaque |-> isFormatOpaque(attrs.format),
     success |-> TRUE,
     log |-> log]

\* mutant: the opaque flag is not derived on the EGL path
WrapImage_NoOpaque(attrs, z, log) ==
    [attrs |-> attrs,
     texture |-> [texID |-> z.texID, kind |-> "egl", type |-> "external", sync |-> FALSE],
     opaque |-> FALSE,
     success |-> z.texID # 0,
     log |-> log]

\* mutant: the test of the texture id is inverted
WrapImage_Inverted(attrs, z, log) ==
    [attrs |-> attrs,
     texture |-> [texID |-> z.texID, kind |-> "egl", type |-> "external", sync |-> FALSE],
     opaque |-> isFormatOpaque(attrs.format),
     success |-> z.texID = 0,
     log |-> log]

\* lines 82-84: wrap the EGLImage
WrapImage(attrs, z, log) ==
    [attrs |-> attrs,
     texture |-> [texID |-> z.texID, kind |-> "egl", type |-> "external", sync |-> FALSE],
     opaque |-> isFormatOpaque(attrs.format),
     success |-> z.texID # 0,
     log |-> log]

\* mutant: the retry repeats the request with the modifier it failed with
ZeroCopyImport_SameModifier(attrs, e, z, pre) ==
    LET first == <<Ev("createEGLImage", attrs.modifier)>> IN
    IF z.egl1 THEN WrapImage(attrs, z, pre.log \o first)
    ELSE IF z.egl2 THEN WrapImage(attrs, z, pre.log \o first \o first)
    ELSE [attrs |-> attrs, texture |-> pre.texture, opaque |-> pre.opaque,
          success |-> pre.success, log |-> pre.log \o first \o first]

\* mutant: the retry is made only when the modifier was not the sentinel
ZeroCopyImport_RetryIfModifier(attrs, e, z, pre) ==
    LET first == <<Ev("createEGLImage", attrs.modifier)>>
        warn == IF e.logDMABUF /\ attrs.modifier # "INVALID"
                THEN <<Ev("warn", "retrying without modifier")>> ELSE <<>>
        implicit == [attrs EXCEPT !.modifier = "INVALID"]
        retry == <<Ev("createEGLImage", implicit.modifier)>>
    IN
    IF z.egl1 THEN WrapImage(attrs, z, pre.log \o first)
    ELSE IF attrs.modifier = "INVALID"
    THEN [attrs |-> attrs, texture |-> pre.texture, opaque |-> pre.opaque,
          success |-> pre.success, log |-> pre.log \o first]
    ELSE IF z.egl2 THEN WrapImage(implicit, z, pre.log \o first \o warn \o retry)
    ELSE [attrs |-> implicit, texture |-> pre.texture, opaque |-> pre.opaque,
          success |-> pre.success, log |-> pre.log \o first \o warn \o retry]

\* lines 63-87: EGL import, one retry with the modifier cleared
ZeroCopyImport(attrs, e, z, pre) ==
    LET first == <<Ev("createEGLImage", attrs.modifier)>>
        warn == IF e.logDMABUF /\ attrs.modifier # "INVALID"
                THEN <<Ev("warn", "retrying without modifier")>> ELSE <<>>
        implicit == [attrs EXCEPT !.modifier = "INVALID"]
        retry == <<Ev("createEGLImage", implicit.modifier)>>
    IN
    IF z.egl1 THEN WrapImage(attrs, z, pre.log \o first)
    ELSE IF z.egl2 THEN WrapImage(implicit, z, pre.log \o first \o warn \o retry)
    ELSE [attrs |-> implicit, texture |-> pre.texture, opaque |-> pre.opaque,
          success |-> pre.success, log |-> pre.log \o first \o warn \o retry]

\* the whole constructor: the members and the calls it leaves behind
CDMABufferCtor(attrs, e, k, z) ==
    LET pre == MaterializerStep(attrs, e, k) IN
    IF pre.returned
    THEN [attrs |-> attrs, texture |-> pre.texture, opaque |-> pre.opaque,
          success |-> pre.success, log |-> pre.log]
    ELSE ZeroCopyImport(attrs, e, z, pre)

(***************************************************************************)
(* closeFDs, lines 130-138: closed = the fds handed to close(), in order.  *)
(***************************************************************************)
RECURSIVE closeFDsLoop(_, _, _)
closeFDsLoop(attrs, i, closed) ==
    IF ~(i < attrs.planes) THEN [attrs |-> [attrs EXCEPT !.planes = 0], closed |-> closed]
    ELSE IF attrs.fds[i + 1] = -1 THEN closeFDsLoop(attrs, i + 1, closed)
    ELSE closeFDsLoop([attrs EXCEPT !.fds[i + 1] = -1], i + 1, Append(closed, attrs.fds[i + 1]))

\* mutant: the closed fds are not overwritten with -1
closeFDs_KeepFds(attrs) ==
    [attrs |-> [attrs EXCEPT !.planes = 0],
     closed |-> SelectSeq(SubSeq(attrs.fds, 1, attrs.planes), LAMBDA fd : fd # -1)]

closeFDs(attrs) == closeFDsLoop(attrs, 0, <<>>)

\* mutant: the listener stays subscribed
resourceDestroyListener_NoReset(attrs) ==
    LET c == closeFDs(attrs) IN
    [attrs |-> c.attrs, closed |-> c.closed, listening |-> TRUE,
     steps |-> <<Ev("listener", "closeFDs")>>]

\* lines 26-29: the resourceDestroy listener
resourceDestroyListener(attrs) ==
    LET c == closeFDs(attrs) IN
    [attrs |-> c.attrs, closed |-> c.closed, listening |-> FALSE,
     steps |-> <<Ev("listener", "closeFDs"), Ev("listener", "reset")>>]

\* mutant: the destructor does not release the fds
Destructor_NoClose(attrs) ==
    [attrs |-> attrs, closed |-> <<>>, steps |-> <<Ev("dtor", "sendRelease")>>]

\* lines 90-95: the destructor
Destructor(attrs) ==
    LET c == closeFDs(attrs) IN
    [attrs |-> c.attrs, closed |-> c.closed,
     steps |-> <<Ev("dtor", "sendRelease"), Ev("dtor", "closeFDs")>>]


(***************************************************************************)
(* exportSyncFile, lines 151-208.  A fence is the sequence of the planes   *)
(* whose sync files it stands for; <<>> is the empty CFileDescriptor.      *)
(* f holds the results of the kernel: readable[p] (isReadable), exportOk[p]*)
(* (DMA_BUF_IOCTL_EXPORT_SYNC_FILE through doIoctl returned 0) and         *)
(* mergeOk[j] (SYNC_IOC_MERGE for the j-th collected fence returned 0; the *)
(* first collected fence is never merged, it seeds the accumulator).       *)
(***************************************************************************)
FenceOutcomes ==
    [readable : [Planes -> BOOLEAN], exportOk : [Planes -> BOOLEAN],
     mergeOk : [Planes \ {1} -> BOOLEAN]]

KEv(op, a, b, ok) == [op |-> op, a |-> a, b |-> b, ok |-> ok]

\* mutant: the loop over the planes ends at the first failed export
RECURSIVE collectSyncFds_StopOnFailure(_, _, _, _, _, _)
collectSyncFds_StopOnFailure(attrs, isIntel, f, p, syncFds, log) ==
    IF p > MaxPlanes THEN [syncFds |-> syncFds, log |-> log]
    ELSE IF attrs.fds[p] = -1
    THEN collectSyncFds_StopOnFailure(attrs, isIntel, f, p + 1, syncFds, log)
    ELSE LET probe == IF ~isIntel THEN <<KEv("isReadable", <<p>>, <<>>, f.readable[p])>> ELSE <<>>
             req == <<KEv("EXPORT_SYNC_FILE", <<p>>, <<>>, f.exportOk[p])>>
         IN IF ~isIntel /\ f.readable[p]
            THEN collectSyncFds_StopOnFailure(attrs, isIntel, f, p + 1, syncFds, log \o probe)
            ELSE IF ~f.exportOk[p]
            THEN [syncFds |-> syncFds, log |-> log \o probe \o req]
            ELSE collectSyncFds_StopOnFailure(attrs, isIntel, f, p + 1,
                     Append(syncFds, <<p>>), log \o probe \o req)

\* mutant: a plane whose fd is -1 is not skipped
RECURSIVE collectSyncFds_NoSkip(_, _, _, _, _, _)
collectSyncFds_NoSkip(attrs, isIntel, f, p, syncFds, log) ==
    IF p > MaxPlanes THEN [syncFds |-> syncFds, log |-> log]
    ELSE LET probe == IF ~isIntel THEN <<KEv("isReadable", <<p>>, <<>>, f.readable[p])>> ELSE <<>>
         IN IF ~isIntel /\ f.readable[p]
            THEN collectSyncFds_NoSkip(attrs, isIntel, f, p + 1, syncFds, log \o probe)
            ELSE collectSyncFds_NoSkip(attrs, isIntel, f, p + 1,
                     IF f.exportOk[p] THEN Append(syncFds, <<p>>) ELSE syncFds,
                     log \o probe \o <<KEv("EXPORT_SYNC_FILE", <<p>>, <<>>, f.exportOk[p])>>)

\* lines 161-179: one sync file per plane fd that needs one
RECURSIVE collectSyncFds(_, _, _, _, _, _)
collectSyncFds(attrs, isIntel, f, p, syncFds, log) ==
    IF p > MaxPlanes THEN [syncFds |-> syncFds, log |-> log]
    ELSE IF attrs.fds[p] = -1 THEN collectSyncFds(attrs, isIntel, f, p + 1, syncFds, log)
    ELSE LET probe == IF ~isIntel THEN <<KEv("isReadable", <<p>>, <<>>, f.readable[p])>> ELSE <<>>
         IN IF ~isIntel /\ f.readable[p]
            THEN collectSyncFds(attrs, isIntel, f, p + 1, syncFds, log \o probe)
            ELSE collectSyncFds(attrs, isIntel, f, p + 1,
                     IF f.exportOk[p] THEN Append(syncFds, <<p>>) ELSE syncFds,
                     log \o probe \o <<KEv("EXPORT_SYNC_FILE", <<p>>, <<>>, f.exportOk[p])>>)

\* mutant: the output of a merge does not replace the accumulator
RECURSIVE mergeSyncFds_KeepFirst(_, _, _, _, _)
mergeSyncFds_KeepFirst(syncFds, f, j, syncFd, log) ==
    IF j > Len(syncFds) THEN [ret |-> syncFd, log |-> log]
    ELSE IF syncFd = <<>> THEN mergeSyncFds_KeepFirst(syncFds, f, j + 1, syncFds[j], log)
    ELSE mergeSyncFds_KeepFirst(syncFds, f, j + 1,
             IF f.mergeOk[j] THEN syncFd ELSE <<>>,
             Append(log, KEv("SYNC_IOC_MERGE", syncFd, syncFds[j], f.mergeOk[j])))

\* the CFileDescriptors still held by the vector are closed when it is
\* destroyed
RECURSIVE closeRemaining(_, _)
closeRemaining(syncFds, log) ==
    IF syncFds = <<>> THEN log
    ELSE closeRemaining(Tail(syncFds),
             IF syncFds[1] = <<>> THEN log ELSE Append(log, KEv("close", syncFds[1], <<>>, TRUE)))

\* mutant: a failed merge drops the accumulator without closing it
RECURSIVE mergeSyncFds_LeakOnFailure(_, _, _, _, _)
mergeSyncFds_LeakOnFailure(syncFds, f, j, syncFd, log) ==
    IF j > Len(syncFds) THEN [ret |-> syncFd, log |-> closeRemaining(syncFds, log)]
    ELSE IF syncFd = <<>>
    THEN mergeSyncFds_LeakOnFailure([syncFds EXCEPT ![j] = <<>>], f, j + 1, syncFds[j], log)
    ELSE mergeSyncFds_LeakOnFailure(syncFds, f, j + 1,
             IF f.mergeOk[j] THEN syncFd \o syncFds[j] ELSE <<>>,
             log \o <<KEv("SYNC_IOC_MERGE", syncFd, syncFds[j], f.mergeOk[j])>>
                 \o (IF f.mergeOk[j] THEN <<KEv("close", syncFd, <<>>, TRUE)>> ELSE <<>>))

\* lines 184-206: the merge loop; j is the position in syncFds.  Moving a
\* fence into the accumulator empties its slot of the vector; assigning to
\* the accumulator closes the fence it held; on return the vector closes
\* the fences left in it.
RECURSIVE mergeSyncFds(_, _, _, _, _)
mergeSyncFds(syncFds, f, j, syncFd, log) ==
    IF j > Len(syncFds) THEN [ret |-> syncFd, log |-> closeRemaining(syncFds, log)]
    ELSE IF syncFd = <<>>
    THEN mergeSyncFds([syncFds EXCEPT ![j] = <<>>], f, j + 1, syncFds[j], log)
    ELSE mergeSyncFds(syncFds, f, j + 1,
             IF f.mergeOk[j] THEN syncFd \o syncFds[j] ELSE <<>>,
             log \o <<KEv("SYNC_IOC_MERGE", syncFd, syncFds[j], f.mergeOk[j]),
                      KEv("close", syncFd, <<>>, TRUE)>>)

\* mutant: good() is not consulted
exportSyncFile_NoGoodCheck(attrs, success, isIntel, f) ==
    LET c == collectSyncFds(attrs, isIntel, f, 1, <<>>, <<>>) IN
    IF c.syncFds = <<>> THEN [ret |-> <<>>, log |-> c.log]
    ELSE mergeSyncFds(c.syncFds, f, 1, <<>>, c.log)

exportSyncFile(attrs, success, isIntel, f) ==
    IF ~success THEN [ret |-> <<>>, log |-> <<>>]
    ELSE LET c == collectSyncFds(attrs, isIntel, f, 1, <<>>, <<>>) IN
         IF c.syncFds = <<>> THEN [ret |-> <<>>, log |-> c.log]
         ELSE mergeSyncFds(c.syncFds, f, 1, <<>>, c.log)

(***************************************************************************)
(* The state machine.                                                      *)
(***************************************************************************)
InitOver(descriptors, environments) ==
    /\ phase = "new"
    /\ attrs_ \in descriptors
    /\ env \in environments
    /\ m_attrs = attrs_
    /\ m_texture = NoTexture
    /\ m_opaque = FALSE
    /\ m_success = FALSE
    /\ listening = FALSE
    /\ ctorLog = <<>>
    /\ handlerLog = <<>>
    /\ closeLog = <<>>
    /\ notified = 0
    /\ exportRet = <<>>
    /\ exportLog = <<>>
    /\ exported = FALSE
    /\ ioPc = "idle"
    /\ ioReq = "none"
    /\ ioLog = <<>>
    /\ ioRet = 0

Init == InitOver(Descriptors, {e \in Environments : ~e.isIntel})

\* CDMABuffer::CDMABuffer
Construct ==
    /\ UNCHANGED ioVars
    /\ phase = "new"
    /\ \E k \in MatOutcomes, z \in ZeroCopyOutcomes :
          LET r == CDMABufferCtor(attrs_, env, k, z) IN
          /\ m_attrs' = r.attrs
          /\ m_texture' = r.texture
          /\ m_opaque' = r.opaque
          /\ m_success' = r.success
          /\ ctorLog' = r.log
    /\ listening' = TRUE
    /\ phase' = "alive"
    /\ UNCHANGED <<attrs_, env, handlerLog, closeLog, notified, exportRet, exportLog,
                   exported>>

\* events.destroy.emit(): runs the listener while it is subscribed
DestroyNotify ==
    /\ UNCHANGED ioVars
    /\ phase = "alive"
    /\ notified < MaxNotify
    /\ notified' = notified + 1
    /\ IF listening
       THEN LET r == resourceDestroyListener(m_attrs) IN
            /\ m_attrs' = r.attrs
            /\ closeLog' = closeLog \o r.closed
            /\ listening' = r.listening
            /\ handlerLog' = handlerLog \o r.steps
       ELSE UNCHANGED <<m_attrs, closeLog, listening, handlerLog>>
    /\ UNCHANGED <<phase, attrs_, env, m_texture, m_opaque, m_success, ctorLog,
                   exportRet, exportLog, exported>>

\* CDMABuffer::~CDMABuffer
Teardown ==
    /\ UNCHANGED ioVars
    /\ phase = "alive"
    /\ LET r == Destructor(m_attrs) IN
       /\ m_attrs' = r.attrs
       /\ closeLog' = closeLog \o r.closed
       /\ handlerLog' = handlerLog \o r.steps
    /\ listening' = FALSE
    /\ phase' = "destroyed"
    /\ UNCHANGED <<attrs_, env, m_texture, m_opaque, m_success, ctorLog, notified,
                   exportRet, exportLog, exported>>

\* CDMABuffer::exportSyncFile
ExportSyncFile ==
    /\ UNCHANGED ioVars
    /\ phase = "alive"
    /\ \E f \in FenceOutcomes :
          LET r == exportSyncFile(m_attrs, m_success, env.isIntel, f) IN
          /\ exportRet' = r.ret
          /\ exportLog' = r.log
    /\ exported' = TRUE
    /\ UNCHANGED <<phase, attrs_, env, m_attrs, m_texture, m_opaque, m_success,
                   listening, ctorLog, handlerLog, closeLog, notified>>

Next == Construct \/ DestroyNotify \/ Teardown

Spec == Init /\ [][Next]_vars

\* the fence exporter on buffers imported through the EGL path
FenceDescriptors ==
    {d \in Descriptors : d.format = "XRGB8888" /\ d.stride = 8 /\ d.sizeY = 2
                         /\ d.sourceDevice = -1 /\ ~d.crossGPU}

FenceEnvironments ==
    {e \in Environments : ~e.secondaryAvailable /\ ~e.enableCPUFallback
                          /\ ~e.disableCPUFallback /\ ~e.logDMABUF}

InitFence == InitOver(FenceDescriptors, FenceEnvironments)

NextFence == Construct \/ DestroyNotify \/ Teardown \/ ExportSyncFile

SpecFence == InitFence /\ [][NextFence]_vars

(***************************************************************************)
(* Properties of the import (constructor).                                 *)
(***************************************************************************)
Constructed == phase # "new"

\* positions of the events of ctorLog with a given op
Positions(log, op) == {i \in 1..Len(log) : log[i].op = op}

MatAttempted == Positions(ctorLog, "createCrossGPUTexture") # {}

\* the image requests of the constructor, in order
EglRequests == SelectSeq(ctorLog, LAMBDA ev : ev.op = "createEGLImage")

\* the calls only createCrossGPUTexture makes
MatCalls == {"mmap", "munmap", "drmPrimeFDToHandle", "MODE_MAP_DUMB", "drmCloseBufferHandle",
             "glGenTextures", "glTexImage2D", "glPixelStorei", "glDeleteTextures"}

\* the upload ran to its end and glGetError reported nothing
MatSucceeded ==
    /\ MatAttempted
    /\ Positions(ctorLog, "glTexImage2D") # {}
    /\ Positions(ctorLog, "glDeleteTextures") = {}

\* C1: the Materializer is attempted, and before any image request, iff
\* crossGPU, the secondary device is available, the enable toggle is set and
\* the disable toggle is not; otherwise it is never invoked and the
\* zero-copy import is the first strategy run.
C1_MaterializerFirstIff ==
    Constructed =>
        LET cond == /\ attrs_.crossGPU
                    /\ env.secondaryAvailable
                    /\ env.enableCPUFallback
                    /\ ~env.disableCPUFallback
        IN /\ cond <=> MatAttempted
           /\ cond => /\ ctorLog[1].op = "createCrossGPUTexture"
                      /\ \A i \in Positions(ctorLog, "createEGLImage") : i > 1
           /\ ~cond => /\ ctorLog[1].op = "createEGLImage"
                       /\ \A i \in 1..Len(ctorLog) : ctorLog[i].op \notin MatCalls

C1_Witness ==
    /\ Constructed
    /\ attrs_.crossGPU /\ env.secondaryAvailable /\ env.enableCPUFallback
    /\ ~env.disableCPUFallback
    /\ ctorLog[1].op = "createCrossGPUTexture"
    /\ Positions(ctorLog, "mmap") # {}
    /\ Len(EglRequests) = 1

\* C2: the zero-copy import is attempted exactly when the Materializer was
\* not attempted or failed; then the success flag is the zero-copy outcome
\* alone; when the Materializer succeeds no image request is made.
C2_FailureFallsThrough ==
    Constructed =>
        /\ (EglRequests # <<>>) <=> (~MatAttempted \/ ~MatSucceeded)
        /\ (EglRequests # <<>>) =>
               (m_success <=> (m_texture.kind = "egl" /\ m_texture.texID # 0))
        /\ MatSucceeded => (EglRequests = <<>> /\ m_success /\ m_texture.kind = "cpu")

\* Scenario C: BGR888 is mapped, refused, unmapped, and the EGL import succeeds
C2_Witness ==
    /\ Constructed
    /\ MatAttempted
    /\ attrs_.format = "BGR888"
    /\ Positions(ctorLog, "munmap") # {}
    /\ Len(EglRequests) = 1
    /\ m_success

\* C3: at most two image requests per construction; a second one is made
\* with the modifier replaced by the implicit sentinel, the first with the
\* descriptor's own modifier; after a second failure nothing is imported.
C3_AtMostOneRetry ==
    Constructed =>
        /\ Len(EglRequests) <= 2
        /\ Len(EglRequests) >= 1 => EglRequests[1].arg = attrs_.modifier
        /\ Len(EglRequests) = 2 =>
               /\ EglRequests[2].arg = "INVALID"
               /\ m_attrs.modifier = "INVALID"
        /\ Len(EglRequests) < 2 => m_attrs.modifier = attrs_.modifier
        /\ ctorLog # <<>> => (ctorLog[Len(ctorLog)].op = "createEGLImage" \/ MatSucceeded)

\* Scenario B: the import fails with a real modifier and succeeds implicit
C3_Witness ==
    /\ Constructed
    /\ attrs_.modifier = "LINEAR"
    /\ Len(EglRequests) = 2
    /\ m_attrs.modifier = "INVALID"
    /\ m_success

\* C4: in every state, good() implies a texture is attached and its id is
\* not zero.
C4_GoodHasTexture ==
    m_success => (m_texture.kind # "null" /\ m_texture.texID # 0)

C4_Witness ==
    /\ m_success
    /\ m_texture.kind = "egl"
    /\ Len(EglRequests) = 2
    /\ phase = "destroyed"

(***************************************************************************)
(* Properties of the release of the plane file descriptors.                *)
(***************************************************************************)
\* number of times fd was handed to close()
TimesClosed(fd) == Cardinality({i \in 1..Len(closeLog) : closeLog[i] = fd})

\* the fds the buffer owns: planes below the plane count with a valid fd
OwnedFds == {attrs_.fds[p] : p \in {q \in Planes : q <= attrs_.planes /\ attrs_.fds[q] >= 0}}

\* closeFDs invocations so far (by the listener and by the destructor)
CloseFDsCalls == Cardinality({i \in 1..Len(handlerLog) : handlerLog[i].arg = "closeFDs"})

AllReleased(attrs) == attrs.planes = 0 /\ \A p \in Planes : attrs.fds[p] = -1

\* C5: closeFDs is idempotent: from any state a second invocation leaves
\* the descriptor as the first left it (plane count zero, every fd -1) and
\* closes no file descriptor.
C5_CloseFDsIdempotent ==
    LET once == closeFDs(m_attrs)
        twice == closeFDs(once.attrs)
    IN /\ twice.attrs = once.attrs
       /\ twice.closed = <<>>
       /\ AllReleased(once.attrs)
       /\ CloseFDsCalls >= 1 => (AllReleased(m_attrs) /\ once.closed = <<>>)

\* closeFDs has run twice (listener, then destructor) on a buffer with fds
C5_Witness ==
    /\ phase = "destroyed"
    /\ CloseFDsCalls = 2
    /\ attrs_.planes >= 2
    /\ AllReleased(m_attrs)

\* C6: over destroy notifications followed by teardown every owned plane fd
\* is closed exactly once: never twice, and none is left open after
\* teardown; nothing else is closed.
C6_ClosedExactlyOnce ==
    /\ \A i \in 1..Len(closeLog) : closeLog[i] \in OwnedFds
    /\ \A fd \in OwnedFds : TimesClosed(fd) <= 1
    /\ phase = "destroyed" => \A fd \in OwnedFds : TimesClosed(fd) = 1

C6_Witness ==
    /\ phase = "destroyed"
    /\ notified >= 2
    /\ Cardinality(OwnedFds) >= 2
    /\ \A fd \in OwnedFds : TimesClosed(fd) = 1

\* the steps of the resourceDestroy listener, in order
ListenerSteps == SelectSeq(handlerLog, LAMBDA ev : ev.op = "listener")

\* C7 as stated: the listener unregisters itself first and releases the
\* file descriptors only afterwards.
C7_UnregisterFirst ==
    ListenerSteps # <<>> =>
        /\ ListenerSteps[1].arg = "reset"
        /\ \A i \in 1..Len(ListenerSteps) :
               ListenerSteps[i].arg = "closeFDs" =>
                   \E j \in 1..(i - 1) : ListenerSteps[j].arg = "reset"

\* C7, amended: the listener releases the file descriptors first and
\* unregisters itself as its last step; it runs at most once, on the first
\* notification, so the release is not entered again by a notification.
C7_ReleaseThenUnregister ==
    /\ ListenerSteps \in {<<>>, <<Ev("listener", "closeFDs"), Ev("listener", "reset")>>}
    /\ (notified >= 1) <=> (ListenerSteps # <<>>)
    /\ notified >= 1 => ~listening

C7_Witness ==
    /\ notified >= 2
    /\ phase = "alive"
    /\ Len(ListenerSteps) = 2
    /\ closeLog # <<>>

(***************************************************************************)
(* Properties of exportSyncFile (the last call, as exportLog recorded it). *)
(***************************************************************************)
\* the merge requests of the call, in order
MergeRequests == SelectSeq(exportLog, LAMBDA ev : ev.op = "SYNC_IOC_MERGE")

\* the per-plane fences obtained by the call, in plane order
ObtainedFences ==
    SelectSeq(exportLog, LAMBDA ev : ev.op = "EXPORT_SYNC_FILE" /\ ev.ok)

RECURSIVE PlanesOf(_)
PlanesOf(evs) == IF evs = <<>> THEN <<>> ELSE evs[1].a \o PlanesOf(Tail(evs))

SeqRange(q) == {q[i] : i \in 1..Len(q)}

\* C8 as stated: with two or more fences obtained, a failed merge request
\* makes the call return the empty fence; a returned fence never stands for
\* only a part of the fences obtained.
C8_NoPartialMerge ==
    (exported /\ Len(ObtainedFences) >= 2) =>
        /\ (\E i \in 1..Len(MergeRequests) : ~MergeRequests[i].ok) => exportRet = <<>>
        /\ exportRet # <<>> => SeqRange(exportRet) = SeqRange(PlanesOf(ObtainedFences))

\* C9: when every merge request succeeds, the N fences obtained are folded
\* left to right in plane order with N-1 requests: request j merges the
\* fold of the first j fences with fence j+1, and the result is the fold of
\* all of them (the single fence for N = 1, the empty fence for N = 0).
C9_LeftFold ==
    (exported /\ \A i \in 1..Len(MergeRequests) : MergeRequests[i].ok) =>
        LET n == Len(ObtainedFences) IN
        /\ exportRet = PlanesOf(ObtainedFences)
        /\ Len(MergeRequests) = (IF n = 0 THEN 0 ELSE n - 1)
        /\ \A j \in 1..Len(MergeRequests) :
               /\ MergeRequests[j].a = PlanesOf(SubSeq(ObtainedFences, 1, j))
               /\ MergeRequests[j].b = ObtainedFences[j + 1].a

C9_Witness ==
    /\ exported
    /\ Len(ObtainedFences) = MaxPlanes
    /\ Len(MergeRequests) = MaxPlanes - 1
    /\ \A i \in 1..Len(MergeRequests) : MergeRequests[i].ok
    /\ Len(exportRet) = MaxPlanes

\* C10: on a buffer whose good() is false exportSyncFile returns the empty
\* fence and issues no readability probe, no export and no merge request,
\* whatever the plane file descriptors are.
C10_NotGoodNoKernelCalls ==
    (exported /\ ~m_success) => (exportRet = <<>> /\ exportLog = <<>>)

C10_Witness ==
    /\ exported
    /\ ~m_success
    /\ phase = "alive"
    /\ \A p \in Planes : m_attrs.fds[p] # -1

(***************************************************************************)
(* Properties of createCrossGPUTexture (as the constructor ran it).        *)
(***************************************************************************)
\* positions of the events of ctorLog equal to a given event
PositionsOf(log, ev) == {i \in 1..Len(log) : log[i] = ev}

\* the mmap calls that returned a mapping
Mappings == PositionsOf(ctorLog, Ev("mmap", "fd")) \cup PositionsOf(ctorLog, Ev("mmap", "sourceDevice"))

Unmappings == Positions(ctorLog, "munmap")

\* C11: every mapping the Materializer creates (direct or through the
\* device handle) is unmapped exactly once before it returns, on every exit
\* path; no mapping is live once the constructor is done with it.
C11_MappingsReleased ==
    Constructed =>
        /\ Cardinality(Mappings) <= 1
        /\ Cardinality(Unmappings) = Cardinality(Mappings)
        /\ \A u \in Unmappings : \E m \in Mappings : m < u
        /\ \A i \in Positions(ctorLog, "createEGLImage") : \A u \in Unmappings : u < i

\* a mapping made through the device handle, released after a GL error
C11_Witness ==
    /\ Constructed
    /\ PositionsOf(ctorLog, Ev("mmap", "sourceDevice")) # {}
    /\ Positions(ctorLog, "glDeleteTextures") # {}
    /\ Cardinality(Unmappings) = 1

\* C12: with a plane count other than 1, or with one plane and a byte
\* length stride x height of zero, createCrossGPUTexture fails without any
\* mmap, any fd-to-handle conversion and any texture creation.
C12_GateBeforeMapping ==
    (Constructed /\ MatAttempted
        /\ (attrs_.planes # 1 \/ attrs_.stride * attrs_.sizeY = 0)) =>
        /\ \A i \in 1..Len(ctorLog) : ctorLog[i].op \notin MatCalls
        /\ ~MatSucceeded
        /\ m_texture.kind # "cpu"
        /\ ctorLog[2].op = "createEGLImage"

C12_Witness ==
    /\ Constructed
    /\ MatAttempted
    /\ attrs_.planes = 1
    /\ attrs_.stride # 0
    /\ attrs_.sizeY = 0
    /\ Len(ctorLog) = 3

(***************************************************************************)
(* Properties of the members the constructor leaves behind.                *)
(***************************************************************************)
\* C13 as stated: after construction the opaque flag says whether the
\* format has no alpha channel, for every outcome of the import, failure of
\* both strategies included.
C13_OpaqueAlways ==
    Constructed => (m_opaque <=> isFormatOpaque(attrs_.format))

\* C13, amended: the opaque flag says whether the format has no alpha
\* channel whenever a texture was attached (CPU copy, first or retried EGL
\* import, whatever its id); when both strategies fail it keeps its initial
\* value, false.
C13_OpaqueWhenImported ==
    Constructed =>
        IF m_texture.kind # "null"
        THEN m_opaque <=> isFormatOpaque(attrs_.format)
        ELSE ~m_opaque

\* an opaque format imported on the retried EGL request
C13_Witness ==
    /\ Constructed
    /\ attrs_.format = "XBGR8888"
    /\ Len(EglRequests) = 2
    /\ m_texture.kind = "egl"
    /\ m_opaque

\* C14 as stated: in every state after construction in which good() is
\* false the buffer holds no texture object, also when an image was
\* obtained and the texture wrapping it has no valid id.
C14_NotGoodNoTexture ==
    (Constructed /\ ~m_success) => m_texture.kind = "null"

\* C14, amended: when good() is false the buffer holds no texture with a
\* valid id: either none is attached (no strategy produced one), or the
\* attached one is the wrapper of an EGL image whose id is zero.
C14_NotGoodNoValidTexture ==
    (Constructed /\ ~m_success) =>
        /\ m_texture.texID = 0
        /\ m_texture.kind \in {"null", "egl"}
        /\ m_texture.kind = "egl" => EglRequests # <<>>

C14_Witness ==
    /\ Constructed
    /\ ~m_success
    /\ m_texture.kind = "egl"
    /\ m_texture.texID = 0
    /\ MatAttempted

\* the retry warning of line 67
RetryWarnings == Positions(ctorLog, "warn")

\* C15 as stated: a second image request is made exactly when the first
\* failed and the modifier was not the implicit sentinel; with the sentinel
\* already in place no second request follows a failure.
C15_RetryOnlyWithModifier ==
    Constructed =>
        /\ Len(EglRequests) = 2 => attrs_.modifier # "INVALID"
        /\ (Len(EglRequests) = 1 /\ attrs_.modifier # "INVALID") => m_texture.kind = "egl"

\* C15, amended: a second image request is made exactly when the first
\* failed, whatever the modifier (a request that stays alone is one that
\* produced an image); it carries the implicit sentinel; only the retry
\* warning depends on the modifier, and on the logging toggle.
C15_RetryOnAnyFailure ==
    (Constructed /\ EglRequests # <<>>) =>
        /\ Len(EglRequests) = 1 => m_texture.kind = "egl"
        /\ (Len(EglRequests) = 2 /\ m_texture.kind = "egl") => m_attrs.modifier = "INVALID"
        /\ Len(EglRequests) = 2 => EglRequests[2].arg = "INVALID"
        /\ (RetryWarnings # {}) <=>
               (Len(EglRequests) = 2 /\ env.logDMABUF /\ attrs_.modifier # "INVALID")

\* both requests carried the sentinel and both failed
C15_Witness ==
    /\ Constructed
    /\ attrs_.modifier = "INVALID"
    /\ Len(EglRequests) = 2
    /\ m_texture.kind = "null"
    /\ env.logDMABUF
    /\ RetryWarnings = {}

\* the device-local buffer handles obtained and released
HandlesObtained == PositionsOf(ctorLog, Ev("drmPrimeFDToHandle", "ok"))

HandlesReleased == Positions(ctorLog, "drmCloseBufferHandle")

\* C17: the device-handle stage runs only after the direct mmap failed and
\* only with a known source device; every handle obtained from the
\* fd-to-handle conversion is released exactly once before the Materializer
\* returns, whether MODE_MAP_DUMB failed, the mmap failed or it succeeded.
C17_HandleReleased ==
    Constructed =>
        /\ \A i \in Positions(ctorLog, "drmPrimeFDToHandle") :
               /\ attrs_.sourceDevice >= 0
               /\ ctorLog[i - 1] = Ev("mmap", "fd MAP_FAILED")
        /\ \A i \in Positions(ctorLog, "MODE_MAP_DUMB") : (i - 1) \in HandlesObtained
        /\ Cardinality(HandlesObtained) <= 1
        /\ Cardinality(HandlesReleased) = Cardinality(HandlesObtained)
        /\ \A r \in HandlesReleased : \E h \in HandlesObtained : h < r
        /\ \A i \in Positions(ctorLog, "createEGLImage") : \A r \in HandlesReleased : r < i

\* the handle is released although MODE_MAP_DUMB failed
C17_Witness ==
    /\ Constructed
    /\ PositionsOf(ctorLog, Ev("MODE_MAP_DUMB", "fail")) # {}
    /\ Cardinality(HandlesObtained) = 1
    /\ Cardinality(HandlesReleased) = 1

(***************************************************************************)
(* Further properties of exportSyncFile.                                   *)
(***************************************************************************)
PlanesIn(log, op) == {log[i].a[1] : i \in Positions(log, op)}

PlanesOk(log, op) == {log[i].a[1] : i \in {j \in Positions(log, op) : log[j].ok}}

\* the planes whose fence reached the merge step: the inputs of the merge
\* requests and what the call returned
HandedToMerge ==
    SeqRange(exportRet)
        \cup UNION {SeqRange(MergeRequests[i].a) \cup SeqRange(MergeRequests[i].b) :
                        i \in 1..Len(MergeRequests)}

\* C16: on a good buffer (its fds not yet released) the readability probe
\* is made for every plane with a valid fd exactly when the GPU is not
\* Intel, an export is requested for every such plane that was not found
\* readable, whatever happened to the planes before it, and the fences
\* handed to the merge step are those of the planes whose export succeeded.
C16_BestEffortExport ==
    (exported /\ m_success /\ CloseFDsCalls = 0) =>
        LET valid == {p \in Planes : m_attrs.fds[p] # -1} IN
        /\ PlanesIn(exportLog, "isReadable") = (IF env.isIntel THEN {} ELSE valid)
        /\ PlanesIn(exportLog, "EXPORT_SYNC_FILE") = valid \ PlanesOk(exportLog, "isReadable")
        /\ HandedToMerge = PlanesOk(exportLog, "EXPORT_SYNC_FILE")

\* the export of the first plane fails and the last plane still gets its fence
C16_Witness ==
    /\ exported /\ m_success /\ CloseFDsCalls = 0
    /\ attrs_.planes = MaxPlanes
    /\ 1 \in PlanesIn(exportLog, "EXPORT_SYNC_FILE") \ PlanesOk(exportLog, "EXPORT_SYNC_FILE")
    /\ MaxPlanes \in PlanesOk(exportLog, "EXPORT_SYNC_FILE")
    /\ exportRet # <<>>

\* the fences the call obtained: exports that succeeded, outputs of merges
FencesObtained ==
    {exportLog[i].a : i \in {j \in Positions(exportLog, "EXPORT_SYNC_FILE") : exportLog[j].ok}}
        \cup {exportLog[i].a \o exportLog[i].b :
                  i \in {j \in Positions(exportLog, "SYNC_IOC_MERGE") : exportLog[j].ok}}

TimesFenceClosed(x) ==
    Cardinality({i \in Positions(exportLog, "close") : exportLog[i].a = x})

\* C19: when exportSyncFile returns, every fence obtained during the call
\* is either the one returned (and open) or has been closed, exactly once;
\* nothing else is closed or returned.
C19_NoFenceLeak ==
    exported =>
        /\ \A x \in FencesObtained :
               TimesFenceClosed(x) = (IF x = exportRet THEN 0 ELSE 1)
        /\ \A i \in Positions(exportLog, "close") : exportLog[i].a \in FencesObtained
        /\ exportRet # <<>> => exportRet \in FencesObtained

\* the last merge failed after an earlier one succeeded: the per-plane
\* fences and the output of the earlier merge are all closed
C19_Witness ==
    /\ exported
    /\ Len(ObtainedFences) = MaxPlanes
    /\ Len(MergeRequests) = MaxPlanes - 1
    /\ MergeRequests[1].ok
    /\ ~MergeRequests[Len(MergeRequests)].ok
    /\ Cardinality(FencesObtained) > MaxPlanes
    /\ \A x \in FencesObtained : TimesFenceClosed(x) = 1
    /\ exportRet = <<>>

\* C20: good() does not change after construction, and once the destroy
\* notification has released the plane fds every exportSyncFile call
\* returns the empty fence without a probe or a kernel request, although
\* good() may still be true.
C20_NoUseAfterClose ==
    [][/\ Constructed => m_success' = m_success
       /\ (phase = "alive" /\ phase' = "alive" /\ notified' = notified /\ ListenerSteps # <<>>)
              => (exportRet' = <<>> /\ exportLog' = <<>>)]_vars

\* a call after the release on a good buffer that had all its planes
C20_Witness ==
    /\ exported
    /\ m_success
    /\ ListenerSteps # <<>>
    /\ attrs_.planes = MaxPlanes
    /\ AllReleased(m_attrs)
    /\ exportRet = <<>> /\ exportLog = <<>>

(***************************************************************************)
(* doIoctl, lines 140-147, one step per ioctl call.  A result is the       *)
(* return value of ioctl and errno after it (left over from an earlier     *)
(* call when ioctl did not fail).  The kernel answers with a transient     *)
(* error at most MaxTransient times in a row.                              *)
(***************************************************************************)
IoctlRequests == {"DMA_BUF_IOCTL_EXPORT_SYNC_FILE", "SYNC_IOC_MERGE"}

IoctlResults == [ret : {0, -1}, errno : {"EINTR", "EAGAIN", "EBADF"}]

\* interrupted or would-block
TransientError(r) == r.ret = -1 /\ r.errno \in {"EINTR", "EAGAIN"}

\* mutant: the return value is not looked at
doIoctlAgain_IgnoreRet(r) == r.errno = "EINTR" \/ r.errno = "EAGAIN"

\* line 145: the loop condition
doIoctlAgain(r) == r.ret = -1 /\ (r.errno = "EINTR" \/ r.errno = "EAGAIN")

\* a caller enters doIoctl (lines 177, 200)
DoIoctlEnter ==
    /\ ioPc = "idle"
    /\ ioPc' = "call"
    /\ ioReq' \in IoctlRequests
    /\ ioLog' = <<>>
    /\ ioRet' = 0
    /\ UNCHANGED bufVars

\* lines 143-145: one iteration of the loop
IoctlCall ==
    /\ ioPc = "call"
    /\ \E r \in IoctlResults :
          /\ TransientError(r) => Len(ioLog) < MaxTransient
          /\ ioLog' = Append(ioLog, r)
          /\ ioRet' = r.ret
          /\ ioPc' = IF doIoctlAgain(r) THEN "call" ELSE "done"
    /\ UNCHANGED <<ioReq, bufVars>>

\* line 146: return ret
DoIoctlReturn ==
    /\ ioPc = "done"
    /\ ioPc' = "idle"
    /\ UNCHANGED <<ioReq, ioLog, ioRet, bufVars>>

InitIoctl ==
    InitOver({Descriptor(1, "INVALID", "ARGB8888", FALSE, <<8, 2>>, -1)},
             {e \in FenceEnvironments : ~e.isIntel})

NextIoctl == DoIoctlEnter \/ IoctlCall \/ DoIoctlReturn

SpecIoctl == InitIoctl /\ [][NextIoctl]_vars

\* C18: doIoctl calls ioctl again if and only if the call before returned
\* -1 with EINTR or EAGAIN; on success or any other error it returns that
\* call's result at once; with at most MaxTransient transient errors in a
\* row it returns after at most MaxTransient + 1 calls.
C18_RetryOnlyTransient ==
    LET n == Len(ioLog) IN
    /\ \A i \in 1..(n - 1) : TransientError(ioLog[i])
    /\ (ioPc = "call" /\ n >= 1) => TransientError(ioLog[n])
    /\ ioPc = "done" => (n >= 1 /\ ~TransientError(ioLog[n]) /\ ioRet = ioLog[n].ret)
    /\ n <= MaxTransient + 1

\* both transient errors, then success with errno left at EAGAIN
C18_Witness ==
    /\ ioPc = "done"
    /\ Len(ioLog) = MaxTransient + 1
    /\ ioLog[1] = [ret |-> -1, errno |-> "EINTR"]
    /\ ioLog[2] = [ret |-> -1, errno |-> "EAGAIN"]
    /\ ioLog[Len(ioLog)] = [ret |-> 0, errno |-> "EAGAIN"]
    /\ ioRet = 0

====
